---- MODULE Spec2Model ----
(***************************************************************************)
(* Completion tracking of furious contexts on the App Engine datastore     *)
(* (furious/extras/appengine/ndb_persistence.py).                          *)
(*                                                                         *)
(* One context is modelled, with task ids 1..NumTasks.  The datastore is   *)
(* three kinds of entity: the FuriousContext entity, the                   *)
(* FuriousCompletionMarker of the context and one FuriousAsyncMarker per   *)
(* async id.  Every datastore call (get, put, get_multi, delete_multi, a   *)
(* transaction) is one atomic step; the steps of different tasks           *)
(* interleave freely.                                                      *)
(***************************************************************************)
EXTENDS Integers, Sequences, FiniteSets, TLC

\* ---------------------------------------------------------------- bounds

\* Number of asyncs of the context.
NumTasks == 3

\* Number of check tasks (_completion_checker) that may run at the same time.
NumWorkers == 2

\* Number of times the task queue delivers a check task again.
MaxRedeliver == 1

\* Batch size of _check_markers in the check task (the code's default is 10;
\* scaled down so that a probe of the context takes more than one batch).
ProbeOffset == 1

\* Longest list of ids given to a _check_markers call made on its own.
MaxProbeLen == 3

\* Largest batch size (offset) given to such a call.
MaxOffset == 3

\* Number of async ids the calls made on the marker store alone are about.
NumMarkerIds == 2

\* Number of callers that call the marker store at the same time.
NumCallers == 2

\* Number of store_context calls the caller makes for the context.
MaxStoreCalls == 2

\* Number of times a check task fails.
MaxFailures == 1

\* Longest run of store_async_marker calls that is counted.
MaxStreak == 3

\* Largest number of task ids of a context given to store_context or
\* iter_results on its own.
MaxContextLen == 3

\* ----------------------------------------------------------- value spaces

TaskIds == 1..NumTasks

\* The asyncs: those of the context, and async 0, which has no context.
Asyncs == 0..NumTasks

NoContext == "None"

TheContext == "context"

\* async.context_id
context_id_of(a) == IF a \in TaskIds THEN TheContext ELSE NoContext

Workers == 1..NumWorkers

\* context.task_ids of the context as built by the caller.
InitialTaskIds == [i \in 1..NumTasks |-> i]

\* The async ids used by the calls made on the marker store alone.
MarkerIds == 1..NumMarkerIds

\* The callers of the marker store (one: its calls are made in sequence).
Callers == {1}

\* A FuriousAsyncMarker is absent, or holds result = None ("bare"), or holds
\* the JSON text of a result.
Absent == "absent"

Bare == "bare"

\* The results an async may have, as Python values.
PyValues == {"None", "0", "[1]", "(1,)"}

\* The values Context.to_dict() holds: those JSON has a text for.
JsonValues == {"None", "0", "[1]"}

\* json.dumps(async_result): None is null, a tuple is written as a list.
json_dumps(v) ==
    CASE v = "None" -> "null"
      [] v = "(1,)" -> "[1]"
      [] OTHER -> v

\* json.loads(text): null is None, an array is a list.
json_loads(text) ==
    CASE text = "null" -> "None"
      [] OTHER -> text

\* The Context of the protocol: its asyncs, and no application state.
InitialContext == [task_ids |-> InitialTaskIds, payload |-> "None"]

\* ------------------------------------------------------------------ state

VARIABLES
    contextEntity,   \* FuriousContext entity: [exists, task_ids]
    completion,      \* FuriousCompletionMarker: "absent" | "false" | "true"
    markers,         \* FuriousAsyncMarker per async id
    storePc,         \* store_context: the puts of put_multi already applied
    asyncPc,         \* context_completion_checker of each async
    queue,           \* check tasks waiting in the task queue, per async id
    redelivered,     \* number of redeliveries so far
    chk,             \* the running check tasks, one record per worker
    cleanupQueue,    \* scheduled cleanup tasks: the task_ids argument of each
    handlerCalls,    \* number of exec_event_handler('complete') calls
    tcTrue,          \* number of _mark_context_complete calls that returned True
    tcFalse,         \* ... that were passed a marker and returned False
    tcNone,          \* ... that were passed marker = None (and returned False)
    cleanupInserted, \* number of cleanup tasks ever scheduled
    cleanupRan,      \* the task_ids arguments of the cleanup tasks that have run,
                     \* in the order they ran
    probe,           \* the arguments of a _check_markers call made on its own
    mcall,           \* the marker-store call (store_async_marker or
                     \* store_async_result) each caller is in
    created,         \* per async id, the marker as it was when first put
    streak,          \* the store_async_marker calls made in a row for one id
    ctx,             \* the Context the caller builds and gives to store_context
    iter,            \* an iter_results(context, batch_size) generator
    storeCalls,      \* number of store_context calls started for the context
    failures         \* number of check tasks that have failed

vars == <<contextEntity, completion, markers, storePc, asyncPc, queue,
          redelivered, chk, cleanupQueue, handlerCalls, tcTrue, tcFalse, tcNone,
          cleanupInserted, cleanupRan, probe, mcall, created, streak, ctx, iter,
          storeCalls, failures>>

datastore == <<contextEntity, completion, markers>>

\* The state of the calls made outside the completion protocol.
aux == <<probe, mcall, created, streak, ctx, iter, storeCalls, failures>>

ghost == <<handlerCalls, tcTrue, tcFalse, tcNone, cleanupInserted, cleanupRan>>

\* ---------------------------------------------------------------- helpers

Range(s) == {s[i] : i \in 1..Len(s)}

Min(a, b) == IF a < b THEN a ELSE b

\* list.remove(x): drops the first occurrence of x.
RECURSIVE ListRemove(_, _)
ListRemove(s, x) ==
    IF s = <<>> THEN <<>>
    ELSE IF Head(s) = x THEN Tail(s)
    ELSE <<Head(s)>> \o ListRemove(Tail(s), x)

\* random.shuffle(s): every reordering of s.
Shuffles(s) ==
    IF s = <<>> THEN {<<>>}
    ELSE {[i \in 1..Len(s) |-> s[f[i]]] : f \in Permutations(1..Len(s))}

\* s[index:index + offset] of a Python list (index counted from 0).
Slice(s, index, offset) == SubSeq(s, index + 1, Min(index + offset, Len(s)))

NoProbe == [task_ids |-> <<>>, offset |-> 0]

IdleCall == [op |-> "none", id |-> 0, result |-> "None", pc |-> "idle"]

NoStreak == [id |-> 0, n |-> 0, before |-> Absent, after |-> <<>>]

NoIter == [pc |-> "none", batch_size |-> 0, pos |-> 0, yielded |-> <<>>]

NoEntity == [exists |-> FALSE, task_ids |-> <<>>, payload |-> "None"]

IdleCheck == [pc |-> "idle", async_id |-> 0, context_task_ids |-> <<>>,
              marker |-> Absent, task_ids |-> <<>>, index |-> 0,
              offset |-> 0, ret |-> "none"]

\* ------------------------------------------------- datastore operations

\* context.to_dict(): the task ids and the application state of the context
\* (the Context class is not part of ndb_persistence.py).
Context_to_dict(c) == [task_ids |-> c.task_ids, payload |-> c.payload]

\* Context.from_dict(d): the context with the task ids and the application
\* state of d (the Context class is not part of ndb_persistence.py).
Context_from_dict(d) == [task_ids |-> d.task_ids, payload |-> d.payload]

\* Mutant: the entity keeps the JSON text of the state where the property
\* gives back the decoded value.
from_context_undecoded(c) ==
    LET d == Context_to_dict(c)
    IN  [exists |-> TRUE, task_ids |-> d.task_ids, payload |-> json_dumps(d.payload)]

\* FuriousContext.from_context(ctx): the entity as it reads once put;
\* its JsonProperty keeps context.to_dict() as JSON text and decodes it on
\* read (the task ids are a list of strings, which JSON gives back as is).
from_context(c) ==
    LET d == Context_to_dict(c)
    IN  [exists |-> TRUE, task_ids |-> d.task_ids,
         payload |-> json_loads(json_dumps(d.payload))]

\* Mutant: a missing entity is loaded as an empty context instead of raising.
from_id_no_raise(entity) ==
    [raised |-> FALSE, task_ids |-> entity.task_ids, payload |-> entity.payload]

\* FuriousContext.from_id / load_context: raises FuriousContextNotFoundError
\* when the entity is missing, else instantiates the stored context.
from_id(entity) ==
    IF ~entity.exists
    THEN [raised |-> TRUE, task_ids |-> <<>>, payload |-> "None"]
    ELSE LET c == Context_from_dict([task_ids |-> entity.task_ids,
                                     payload |-> entity.payload])
         IN  [raised |-> FALSE, task_ids |-> c.task_ids, payload |-> c.payload]

load_context(entity) == from_id(entity)

\* context.task_ids of a loaded context: the task ids the context was stored
\* with (the Context class is not part of ndb_persistence.py).
Context_task_ids(context_task_ids) == context_task_ids

\* Mutant: a batch shorter than size is dropped.
next_batch_full_only(items, pos, size) ==
    IF pos + size <= Len(items) THEN Slice(items, pos, size) ELSE <<>>

\* tuple(islice(items, size)) of i_batch, pos items of the iterator being
\* consumed: the next batch, empty when the items are used up.
next_batch(items, pos, size) == Slice(items, pos, size)

\* The value iter_results yields for a marker: None when
\* `not (task and task.result)`, else json.loads(task.result).
yield_result(task) ==
    IF ~(task # Absent /\ task # Bare) THEN "None" ELSE json_loads(task)

\* Mutant: store_async_marker puts a bare marker whatever it read.
marker_exists_never(marker) == FALSE

\* `if marker:` of store_async_marker, on the result of get_by_id.
marker_exists(marker) == marker # Absent

\* Mutant: all(keys) in place of all(markers): the keys, not what
\* get_multi found, are tested.
all_keys(store, keys) == TRUE

\* Mutant: any(...) in place of all(...).
any_marker(store, keys) ==
    keys = <<>> \/ \E i \in 1..Len(keys) : store[keys[i]] # Absent

\* all(ndb.get_multi(keys)): every key has an entity.
all_markers(store, keys) == \A i \in 1..Len(keys) : store[keys[i]] # Absent

\* Mutant: a missing CompletionMarker is created complete.
mark_context_complete_creates(marker, stored) ==
    LET current == IF marker # Absent THEN stored ELSE Absent
    IN  IF current = "true"
        THEN [ret |-> FALSE, completion |-> stored]
        ELSE [ret |-> TRUE, completion |-> "true"]

\* Mutant: the transaction does not test current.complete.
mark_context_complete_unchecked(marker, stored) ==
    LET current == IF marker # Absent THEN stored ELSE Absent
    IN  IF current = Absent
        THEN [ret |-> FALSE, completion |-> stored]
        ELSE [ret |-> TRUE, completion |-> "true"]

\* The body of the transaction _mark_context_complete(marker, context): the
\* value returned and the CompletionMarker after commit.
mark_context_complete(marker, stored) ==
    LET current == IF marker # Absent THEN stored ELSE Absent
    IN  IF current = Absent
        THEN [ret |-> FALSE, completion |-> stored]
        ELSE IF current = "true"
        THEN [ret |-> FALSE, completion |-> stored]
        ELSE [ret |-> TRUE, completion |-> "true"]

\* Mutant: the post-complete tasks are inserted whatever first_complete is.
after_mark_complete_always(first_complete) == "exec_handler"

\* `if first_complete:` of _completion_checker: where the check goes after
\* _mark_context_complete returned.
after_mark_complete(first_complete) ==
    IF first_complete THEN "exec_handler" ELSE "return"

\* Mutant: the loop returns True after its first batch.
last_batch_first_only(index, offset, n) == TRUE

\* The loop of _check_markers, `for index in xrange(0, len(task_ids), offset)`:
\* whether the batch at index is the last one.
last_batch(index, offset, n) == index + offset >= n

\* Mutant: the check has no early return.
already_complete_never(marker) == FALSE

\* Mutant: the early return does not test marker.complete.
already_complete_any_marker(marker) == marker # Absent

\* The early return of _completion_checker: `if marker and marker.complete`.
already_complete(marker) == marker # Absent /\ marker = "true"

\* The pending ids of a check: task_ids with async_id removed when present.
pending_ids(task_ids, async_id) ==
    IF async_id \in Range(task_ids) THEN ListRemove(task_ids, async_id)
    ELSE task_ids

\* Mutant: the cleanup task is given the list the check removed its
\* async_id from and shuffled.
cleanup_task_ids_pending(check) == check.task_ids

\* The task_ids argument of the cleanup task a check schedules:
\* args=[context.id, context.task_ids].
cleanup_task_ids(check) == Context_task_ids(check.context_task_ids)

\* Mutant: the error of Async(...).start() is not caught and ends the check
\* task.
start_failure_raised == "Error"

\* `except: pass` around the scheduling of the cleanup task: an error of
\* Async(...).start() is dropped and _completion_checker returns True.
start_failure_swallowed == "True"

\* Mutant: the first task id is left out of the delete.
markers_after_cleanup_skip_first(store, task_ids) ==
    [i \in DOMAIN store |->
        IF task_ids # <<>> /\ i \in Range(Tail(task_ids)) THEN Absent ELSE store[i]]

\* The markers after _cleanup_markers(context_id, task_ids).
markers_after_cleanup(store, task_ids) ==
    [i \in DOMAIN store |-> IF i \in Range(task_ids) THEN Absent ELSE store[i]]

\* ------------------------------------------------------------ store_context

\* ndb.put_multi((entity, marker)) is two puts that become visible one by one.
StoreContextPutEntity ==
    /\ "entity" \notin storePc
    /\ storePc' = storePc \cup {"entity"}
    /\ contextEntity' = from_context(ctx)
    /\ UNCHANGED <<aux, completion, markers, asyncPc, queue, redelivered, chk,
                   cleanupQueue, ghost>>

StoreContextPutMarker ==
    /\ "marker" \notin storePc
    /\ storePc' = storePc \cup {"marker"}
    /\ completion' = "false"
    /\ UNCHANGED <<aux, contextEntity, markers, asyncPc, queue, redelivered, chk,
                   cleanupQueue, ghost>>

\* ----------------------------------------------- context_completion_checker

\* store_async_marker(async.id): FuriousAsyncMarker.get_by_id.
StoreAsyncMarkerGet(a) ==
    /\ asyncPc[a] = "start"
    /\ asyncPc' = [asyncPc EXCEPT ![a] =
                     IF marker_exists(markers[a]) THEN "start_check" ELSE "put"]
    /\ UNCHANGED <<aux, datastore, storePc, queue, redelivered, chk, cleanupQueue,
                   ghost>>

\* store_async_marker(async.id): FuriousAsyncMarker(id=async_id).put().
StoreAsyncMarkerPut(a) ==
    /\ asyncPc[a] = "put"
    /\ markers' = [markers EXCEPT ![a] = Bare]
    /\ asyncPc' = [asyncPc EXCEPT ![a] = "start_check"]
    /\ UNCHANGED <<aux, contextEntity, completion, storePc, queue, redelivered,
                   chk, cleanupQueue, ghost>>

\* Async(_completion_checker, args=(async.id, async.context_id)).start().
StartCheck(a) ==
    /\ asyncPc[a] = "start_check"
    /\ queue' = [queue EXCEPT ![a] = @ + 1]
    /\ asyncPc' = [asyncPc EXCEPT ![a] = "done"]
    /\ UNCHANGED <<aux, datastore, storePc, redelivered, chk, cleanupQueue, ghost>>

\* The task queue delivers at least once: a check task is delivered again.
Redeliver(a) ==
    /\ asyncPc[a] = "done"
    /\ redelivered < MaxRedeliver
    /\ redelivered' = redelivered + 1
    /\ queue' = [queue EXCEPT ![a] = @ + 1]
    /\ UNCHANGED <<aux, datastore, storePc, asyncPc, chk, cleanupQueue, ghost>>

\* ------------------------------------------------------ _completion_checker

Return(p, value) == [chk EXCEPT ![p] = [IdleCheck EXCEPT !.ret = value]]

\* A worker takes a check task: the return when context_id is None, and
\* context = FuriousContext.from_id(context_id).
CheckerLoadContext(p, a) ==
    /\ chk[p].pc = "idle"
    /\ queue[a] > 0
    /\ queue' = [queue EXCEPT ![a] = @ - 1]
    /\ LET context == from_id(contextEntity)
       IN  chk' = IF context_id_of(a) = NoContext
                  THEN Return(p, "None")
                  ELSE IF context.raised
                  THEN Return(p, "ContextNotFound")
                  ELSE [chk EXCEPT ![p] =
                          [IdleCheck EXCEPT !.pc = "get_marker",
                                            !.async_id = a,
                                            !.context_task_ids = context.task_ids]]
    /\ UNCHANGED <<aux, datastore, storePc, asyncPc, redelivered, cleanupQueue, ghost>>

\* marker = FuriousCompletionMarker.get_by_id(context_id), the early return
\* and the removal of async_id from the task ids.
CheckerGetMarker(p) ==
    /\ chk[p].pc = "get_marker"
    /\ chk' = IF already_complete(completion)
              THEN Return(p, "None")
              ELSE [chk EXCEPT ![p].pc = "check_markers",
                               ![p].marker = completion,
                               ![p].task_ids =
                                   pending_ids(Context_task_ids(chk[p].context_task_ids),
                                               chk[p].async_id),
                               ![p].index = 0,
                               ![p].offset = ProbeOffset]
    /\ UNCHANGED <<aux, datastore, storePc, asyncPc, queue, redelivered,
                   cleanupQueue, ghost>>

\* _check_markers: the shuffle (on entry) and one ndb.get_multi per step.
CheckMarkers(p) ==
    /\ chk[p].pc = "check_markers"
    /\ \E s \in (IF chk[p].index = 0 THEN Shuffles(chk[p].task_ids)
                 ELSE {chk[p].task_ids}) :
         LET index == chk[p].index
             offset == chk[p].offset
         IN  chk' =
               IF index >= Len(s)
               THEN [chk EXCEPT ![p].pc = "mark_complete"]
               ELSE IF ~all_markers(markers, Slice(s, index, offset))
               THEN Return(p, "False")
               ELSE IF last_batch(index, offset, Len(s))
               THEN [chk EXCEPT ![p].pc = "mark_complete", ![p].task_ids = s]
               ELSE [chk EXCEPT ![p].task_ids = s, ![p].index = index + offset]
    /\ UNCHANGED <<aux, datastore, storePc, asyncPc, queue, redelivered,
                   cleanupQueue, ghost>>

\* first_complete = _mark_context_complete(marker, context), one transaction.
MarkContextComplete(p) ==
    /\ chk[p].pc = "mark_complete"
    /\ LET r == mark_context_complete(chk[p].marker, completion)
       IN  /\ completion' = r.completion
           /\ tcTrue' = IF r.ret THEN tcTrue + 1 ELSE tcTrue
           /\ tcFalse' = IF ~r.ret /\ chk[p].marker # Absent
                        THEN tcFalse + 1 ELSE tcFalse
           /\ tcNone' = IF ~r.ret /\ chk[p].marker = Absent
                       THEN tcNone + 1 ELSE tcNone
           /\ chk' = IF after_mark_complete(r.ret) = "exec_handler"
                     THEN [chk EXCEPT ![p].pc = "exec_handler"]
                     ELSE Return(p, "True")
    /\ UNCHANGED <<aux, contextEntity, markers, storePc, asyncPc, queue,
                   redelivered, cleanupQueue, handlerCalls, cleanupInserted,
                   cleanupRan>>

\* _insert_post_complete_tasks: context.exec_event_handler('complete').
ExecEventHandler(p) ==
    /\ chk[p].pc = "exec_handler"
    /\ handlerCalls' = handlerCalls + 1
    /\ chk' = [chk EXCEPT ![p].pc = "insert_cleanup"]
    /\ UNCHANGED <<aux, datastore, storePc, asyncPc, queue, redelivered,
                   cleanupQueue, tcTrue, tcFalse, tcNone, cleanupInserted,
                   cleanupRan>>

\* _insert_post_complete_tasks: the cleanup task is scheduled with
\* [context.id, context.task_ids], or scheduling fails and the error is
\* swallowed.  Either way _completion_checker returns True.
InsertCleanup(p) ==
    /\ chk[p].pc = "insert_cleanup"
    /\ \/ /\ cleanupQueue' =
               Append(cleanupQueue, cleanup_task_ids(chk[p]))
          /\ cleanupInserted' = cleanupInserted + 1
          /\ chk' = Return(p, "True")
       \/ /\ UNCHANGED <<cleanupQueue, cleanupInserted>>
          /\ chk' = Return(p, start_failure_swallowed)
    /\ UNCHANGED <<aux, datastore, storePc, asyncPc, queue, redelivered,
                   handlerCalls, tcTrue, tcFalse, tcNone, cleanupRan>>

\* ---------------------------------------------------------- _cleanup_markers

CleanupMarkers ==
    /\ cleanupQueue # <<>>
    /\ markers' = markers_after_cleanup(markers, Head(cleanupQueue))
    /\ completion' = Absent
    /\ cleanupQueue' = Tail(cleanupQueue)
    /\ cleanupRan' = Append(cleanupRan, Head(cleanupQueue))
    /\ UNCHANGED <<aux, contextEntity, storePc, asyncPc, queue, redelivered, chk,
                   handlerCalls, tcTrue, tcFalse, tcNone, cleanupInserted>>

\* ------------------------------------------------------------ specification

Init ==
    /\ contextEntity = NoEntity
    /\ completion = Absent
    /\ markers = [i \in Asyncs |-> Absent]
    /\ storePc = {}
    /\ asyncPc = [i \in Asyncs |-> "start"]
    /\ queue = [i \in Asyncs |-> 0]
    /\ redelivered = 0
    /\ chk = [p \in Workers |-> IdleCheck]
    /\ cleanupQueue = <<>>
    /\ handlerCalls = 0
    /\ tcTrue = 0
    /\ tcFalse = 0
    /\ tcNone = 0
    /\ cleanupInserted = 0
    /\ cleanupRan = <<>>
    /\ probe = NoProbe
    /\ mcall = [c \in Callers |-> IdleCall]
    /\ created = [i \in Asyncs |-> Absent]
    /\ streak = NoStreak
    /\ ctx = InitialContext
    /\ iter = NoIter
    /\ storeCalls = 1
    /\ failures = 0

Next ==
    \/ StoreContextPutEntity
    \/ StoreContextPutMarker
    \/ \E a \in Asyncs : StoreAsyncMarkerGet(a)
    \/ \E a \in Asyncs : StoreAsyncMarkerPut(a)
    \/ \E a \in Asyncs : StartCheck(a)
    \/ \E a \in Asyncs : Redeliver(a)
    \/ \E p \in Workers, a \in Asyncs : CheckerLoadContext(p, a)
    \/ \E p \in Workers : CheckerGetMarker(p)
    \/ \E p \in Workers : CheckMarkers(p)
    \/ \E p \in Workers : MarkContextComplete(p)
    \/ \E p \in Workers : ExecEventHandler(p)
    \/ \E p \in Workers : InsertCleanup(p)
    \/ CleanupMarkers

Spec == Init /\ [][Next]_vars

\* The protocol once store_context has returned: the Context and its
\* CompletionMarker (complete = False) are stored before any async finishes.
InitStored ==
    /\ contextEntity = from_context(InitialContext)
    /\ completion = "false"
    /\ markers = [i \in Asyncs |-> Absent]
    /\ storePc = {"entity", "marker"}
    /\ asyncPc = [i \in Asyncs |-> "start"]
    /\ queue = [i \in Asyncs |-> 0]
    /\ redelivered = 0
    /\ chk = [p \in Workers |-> IdleCheck]
    /\ cleanupQueue = <<>>
    /\ handlerCalls = 0
    /\ tcTrue = 0
    /\ tcFalse = 0
    /\ tcNone = 0
    /\ cleanupInserted = 0
    /\ cleanupRan = <<>>
    /\ probe = NoProbe
    /\ mcall = [c \in Callers |-> IdleCall]
    /\ created = [i \in Asyncs |-> Absent]
    /\ streak = NoStreak
    /\ ctx = InitialContext
    /\ iter = NoIter
    /\ storeCalls = 1
    /\ failures = 0

\* The steps of the asyncs' context_completion_checker.
AsyncStep ==
    \E a \in Asyncs :
        StoreAsyncMarkerGet(a) \/ StoreAsyncMarkerPut(a) \/ StartCheck(a)

\* The steps of the check tasks.
CheckStep ==
    \/ \E p \in Workers, a \in Asyncs : CheckerLoadContext(p, a)
    \/ \E p \in Workers :
          \/ CheckerGetMarker(p)
          \/ CheckMarkers(p)
          \/ MarkContextComplete(p)
          \/ ExecEventHandler(p)
          \/ InsertCleanup(p)

NextStored ==
    \/ AsyncStep
    \/ \E a \in Asyncs : Redeliver(a)
    \/ CheckStep
    \/ CleanupMarkers

\* Every async runs context_completion_checker to its end and the task queue
\* runs every check task it holds to its end.
SpecLive == InitStored /\ [][NextStored]_vars /\ WF_vars(AsyncStep) /\ WF_vars(CheckStep)

\* ------------------------------------------------------------------ claims

\* Every async of the context has had its FuriousAsyncMarker written.
AllMarkersWritten == \A i \in TaskIds : asyncPc[i] \in {"start_check", "done"}

\* Workers between a winning _mark_context_complete and the handler call.
BeforeHandler == {p \in Workers : chk[p].pc = "exec_handler"}

\* Workers between the handler call and the scheduling of cleanup.
BeforeCleanupInsert == {p \in Workers : chk[p].pc = "insert_cleanup"}

\* C1 (as stated): once _mark_context_complete has been invoked for the
\* context, exactly one of the invocations has returned True.
C1_ExactlyOneTrue == (tcTrue + tcFalse + tcNone >= 1) => tcTrue = 1

\* C1 (amended): at most one invocation of _mark_context_complete returns
\* True and every other one returns False; exactly one returns True as soon as
\* one invocation was passed a CompletionMarker, and none does while every
\* invocation was passed marker = None.
C1_AtMostOneTrue ==
    /\ tcTrue <= 1
    /\ (tcTrue + tcFalse >= 1) => tcTrue = 1
    /\ completion = "true" => tcTrue = 1

\* C1 witness: two invocations were passed a marker; one returned True, the
\* other False.
C1_Witness == tcTrue = 1 /\ tcFalse >= 1

\* C2: the 'complete' handler is invoked at most once and cleanup is scheduled
\* at most once; only a check whose _mark_context_complete returned True
\* invokes the handler and schedules cleanup, and it does each once.
C2_HandlerAtMostOnce ==
    /\ handlerCalls <= 1
    /\ tcTrue <= 1
    /\ handlerCalls + Cardinality(BeforeHandler) = tcTrue
    /\ cleanupInserted + Cardinality(BeforeCleanupInsert) <= handlerCalls

\* C2 witness: the winner has invoked the handler while another check, which
\* also saw every marker present, got False and returned without the handler.
C2_Witness ==
    /\ handlerCalls = 1
    /\ tcFalse >= 1
    /\ \E p \in Workers : chk[p].pc = "insert_cleanup"
    /\ \E q \in Workers : chk[q].pc = "idle" /\ chk[q].ret = "True"

\* C3: the gate is flipped, and the handler invoked, only after every task id
\* of the context has had its marker written; until cleanup runs all markers
\* are then present.
C3_NoPrematureCompletion ==
    /\ (completion = "true" \/ tcTrue > 0 \/ handlerCalls > 0) => AllMarkersWritten
    /\ completion = "true" => \A i \in TaskIds : markers[i] # Absent

\* C3 witness: a check that excluded its own id and read the other markers in
\* more than one batch has flipped the gate.
C3_Witness ==
    \E p \in Workers :
        /\ chk[p].pc = "exec_handler"
        /\ chk[p].index > 0
        /\ Len(chk[p].task_ids) = NumTasks - 1
        /\ completion = "true"

\* C5: a cleanup task exists or has run only after the gate was flipped (a
\* waiting cleanup task finds complete = true), and cleanup is scheduled at
\* most once.
C5_CleanupAfterFlip ==
    /\ cleanupInserted <= 1
    /\ Len(cleanupQueue) + Len(cleanupRan) = cleanupInserted
    /\ cleanupQueue # <<>> => completion = "true"
    /\ cleanupRan # <<>> => tcTrue = 1

\* C5 witness: the cleanup task has run.
C5_Witness == Len(cleanupRan) = 1 /\ completion = Absent

\* C9 (as stated): after cleanup has run, load_context raises, the
\* CompletionMarker is absent and no task id of the context has a marker.
C9_ContextDestroyed ==
    cleanupRan # <<>> =>
        /\ load_context(contextEntity).raised
        /\ completion = Absent
        /\ \A i \in TaskIds : markers[i] = Absent

\* C9 (amended): after cleanup has run, the CompletionMarker is absent and so
\* is the marker of every task id handed to the cleanup task, but the
\* FuriousContext entity is still stored and load_context returns it.
C9_MarkersDeletedContextKept ==
    cleanupRan # <<>> =>
        /\ ~load_context(contextEntity).raised
        /\ load_context(contextEntity).task_ids = InitialTaskIds
        /\ completion = Absent
        /\ \A k \in 1..Len(cleanupRan) :
               \A i \in Range(cleanupRan[k]) : markers[i] = Absent

\* C9 witness: cleanup has run on a non-empty list of task ids.
C9_Witness == cleanupRan # <<>> /\ cleanupRan[1] # <<>>

\* C10: load_context raises when no Context is stored, and a check task for a
\* non-null context id that finds none ends with that error, changing neither
\* the datastore nor the task queues, and invoking no handler.
C10_NotFoundIsTerminal ==
    [][ /\ ~contextEntity.exists => load_context(contextEntity).raised
        /\ \A a \in TaskIds :
             (queue'[a] = queue[a] - 1 /\ ~contextEntity.exists) =>
                /\ \E p \in Workers :
                     /\ chk[p].pc = "idle"
                     /\ chk' = [chk EXCEPT ![p] =
                                  [IdleCheck EXCEPT !.ret = "ContextNotFound"]]
                /\ UNCHANGED <<datastore, cleanupQueue, ghost>> ]_vars

\* C10 witness: a check task has ended with FuriousContextNotFoundError.
C10_Witness ==
    \E p \in Workers : chk[p].ret = "ContextNotFound" /\ ~contextEntity.exists

\* --------------------------------------------------- the marker store alone

\* The run of store_async_marker calls after one more call for id returned;
\* before is the marker the first call of the run found.
streak_after_call(id, before, store) ==
    IF streak.n >= 1 /\ streak.id = id
    THEN [streak EXCEPT !.n = Min(streak.n + 1, MaxStreak)]
    ELSE [id |-> id, n |-> 1, before |-> before, after |-> store]

\* store_async_marker(async_id): get_by_id, and the return when the marker
\* exists.
MarkRanGet(c, id) ==
    /\ mcall[c].pc = "idle"
    /\ IF marker_exists(markers[id])
       THEN /\ mcall' = [mcall EXCEPT ![c] =
                           [IdleCall EXCEPT !.op = "store_async_marker", !.id = id]]
            /\ streak' = streak_after_call(id, markers[id], markers)
       ELSE /\ mcall' = [mcall EXCEPT ![c] =
                           [IdleCall EXCEPT !.op = "store_async_marker", !.id = id,
                                            !.pc = "put"]]
            /\ UNCHANGED streak
    /\ UNCHANGED <<datastore, storePc, asyncPc, queue, redelivered, chk,
                   cleanupQueue, ghost, probe, created, ctx, iter,
                   storeCalls, failures>>

\* store_async_marker(async_id): FuriousAsyncMarker(id=async_id).put().
MarkRanPut(c) ==
    /\ mcall[c].pc = "put"
    /\ markers' = [markers EXCEPT ![mcall[c].id] = Bare]
    /\ created' = [created EXCEPT ![mcall[c].id] =
                      IF markers[mcall[c].id] = Absent THEN Bare ELSE @]
    /\ mcall' = [mcall EXCEPT ![c].pc = "idle"]
    /\ streak' = streak_after_call(mcall[c].id, markers[mcall[c].id], markers')
    /\ UNCHANGED <<contextEntity, completion, storePc, asyncPc, queue,
                   redelivered, chk, cleanupQueue, ghost, probe, ctx, iter,
                   storeCalls, failures>>

\* store_async_result(async_id, async_result): one put of a marker that
\* carries json.dumps(async_result).
StoreAsyncResult(c, id, v) ==
    /\ mcall[c].pc = "idle"
    /\ markers' = [markers EXCEPT ![id] = json_dumps(v)]
    /\ created' = [created EXCEPT ![id] =
                      IF markers[id] = Absent THEN json_dumps(v) ELSE @]
    /\ mcall' = [mcall EXCEPT ![c] =
                    [IdleCall EXCEPT !.op = "store_async_result", !.id = id,
                                     !.result = v]]
    /\ streak' = NoStreak
    /\ UNCHANGED <<contextEntity, completion, storePc, asyncPc, queue,
                   redelivered, chk, cleanupQueue, ghost, probe, ctx, iter,
                   storeCalls, failures>>

NextMarker ==
    \/ \E c \in Callers, id \in MarkerIds : MarkRanGet(c, id)
    \/ \E c \in Callers : MarkRanPut(c)
    \/ \E c \in Callers, id \in MarkerIds, v \in PyValues : StoreAsyncResult(c, id, v)

\* Any sequence of store_async_marker and store_async_result calls on an
\* empty marker store.
SpecMarker == Init /\ [][NextMarker]_vars

\* ------------------------------------------------- _check_markers alone

\* The lists of ids of length at most n.
RECURSIVE ListsUpTo(_)
ListsUpTo(n) ==
    IF n = 0 THEN {<<>>}
    ELSE LET shorter == ListsUpTo(n - 1)
         IN  shorter \cup {Append(l, i) : l \in shorter, i \in TaskIds}

\* A call _check_markers(task_ids, offset) by worker 1, on any marker store
\* (which no one changes during the call).
InitProbe ==
    /\ contextEntity = NoEntity
    /\ completion = Absent
    /\ markers \in [Asyncs -> {Absent, Bare}]
    /\ storePc = {}
    /\ asyncPc = [i \in Asyncs |-> "start"]
    /\ queue = [i \in Asyncs |-> 0]
    /\ redelivered = 0
    /\ probe \in [task_ids : ListsUpTo(MaxProbeLen), offset : 1..MaxOffset]
    /\ chk = [p \in Workers |->
                IF p = 1
                THEN [IdleCheck EXCEPT !.pc = "check_markers",
                                       !.task_ids = probe.task_ids,
                                       !.offset = probe.offset]
                ELSE IdleCheck]
    /\ cleanupQueue = <<>>
    /\ handlerCalls = 0
    /\ tcTrue = 0
    /\ tcFalse = 0
    /\ tcNone = 0
    /\ cleanupInserted = 0
    /\ cleanupRan = <<>>
    /\ mcall = [c \in Callers |-> IdleCall]
    /\ created = [i \in Asyncs |-> Absent]
    /\ streak = NoStreak
    /\ ctx = InitialContext
    /\ iter = NoIter
    /\ storeCalls = 1
    /\ failures = 0

NextProbe == \E p \in {1} : CheckMarkers(p)

SpecProbe == InitProbe /\ [][NextProbe]_vars

\* C4: with the context stored first, every async running its
\* context_completion_checker and every check task running to its end, the
\* gate is eventually complete = true with the handler invoked.
C4_EventuallyComplete == <>(completion = "true" /\ handlerCalls = 1)

\* C4 witness: the gate is flipped and the handler invoked after a check task
\* had returned False on a missing marker.
C4_Witness ==
    /\ completion = "true"
    /\ handlerCalls = 1
    /\ \E p \in Workers : chk[p].pc = "idle" /\ chk[p].ret = "False"

\* C6: after one or more store_async_marker calls in a row for an id, the
\* marker store is as the first of them left it: a marker that existed is
\* kept as it was (with its result), a missing one is a bare marker; every
\* call returns None.
C6_MarkRanIdempotent ==
    /\ streak.n >= 1 =>
          /\ markers = streak.after
          /\ streak.before # Absent => markers[streak.id] = streak.before
          /\ streak.before = Absent => markers[streak.id] = Bare
    /\ \A c \in Callers : mcall[c].pc \in {"idle", "put"}

\* C6 witness: store_async_marker was called at least twice in a row for an
\* id whose marker carried a result.
C6_Witness == streak.n >= 2 /\ streak.before \notin {Absent, Bare}

\* C7 (as stated): a marker that exists is as it was when it was created.
C7_ResultNeverChanges ==
    \A i \in MarkerIds : markers[i] # Absent => markers[i] = created[i]

\* C7 (amended): store_async_marker never changes a marker that exists; a
\* marker that exists changes only by a store_async_result call for its id,
\* which overwrites it with the JSON text of the new result.
C7_OnlyStoreResultOverwrites ==
    [][ \A i \in MarkerIds :
          (markers[i] # Absent /\ markers'[i] # markers[i]) =>
             \E c \in Callers :
                /\ mcall[c].pc = "idle"
                /\ mcall'[c].op = "store_async_result"
                /\ mcall'[c].id = i
                /\ markers'[i] = json_dumps(mcall'[c].result) ]_vars

\* C7 witness: a marker created bare by store_async_marker now carries a
\* result.
C7_Witness == \E i \in MarkerIds : created[i] = Bare /\ markers[i] = "[1]"

\* C8: _check_markers on an unchanging marker store returns True exactly when
\* every id of the list has a marker, whatever the shuffle and the offset.
C8_CheckMarkers ==
    /\ chk[1].pc = "mark_complete" =>
          \A i \in Range(probe.task_ids) : markers[i] # Absent
    /\ chk[1].pc = "idle" =>
          /\ chk[1].ret = "False"
          /\ \E i \in Range(probe.task_ids) : markers[i] = Absent
    /\ chk[1].pc \in {"check_markers", "mark_complete", "idle"}

\* C8 witness: a call returned True after more than one batch, the last one
\* shorter than the offset.
C8_Witness ==
    /\ chk[1].pc = "mark_complete"
    /\ Len(probe.task_ids) = 3
    /\ probe.offset = 2
    /\ chk[1].index = 2

\* --------------------------------------------------- store_context alone

\* A call store_context(context) on an empty datastore, for any context of at
\* most MaxContextLen task ids.
InitStore ==
    /\ contextEntity = NoEntity
    /\ completion = Absent
    /\ markers = [i \in Asyncs |-> Absent]
    /\ storePc = {}
    /\ asyncPc = [i \in Asyncs |-> "start"]
    /\ queue = [i \in Asyncs |-> 0]
    /\ redelivered = 0
    /\ chk = [p \in Workers |-> IdleCheck]
    /\ cleanupQueue = <<>>
    /\ handlerCalls = 0
    /\ tcTrue = 0
    /\ tcFalse = 0
    /\ tcNone = 0
    /\ cleanupInserted = 0
    /\ cleanupRan = <<>>
    /\ probe = NoProbe
    /\ mcall = [c \in Callers |-> IdleCall]
    /\ created = [i \in Asyncs |-> Absent]
    /\ streak = NoStreak
    /\ ctx \in [task_ids : ListsUpTo(MaxContextLen), payload : JsonValues]
    /\ iter = NoIter
    /\ storeCalls = 1
    /\ failures = 0

NextStore == StoreContextPutEntity \/ StoreContextPutMarker

SpecStore == InitStore /\ [][NextStore]_vars

\* store_context has returned: both puts of put_multi are applied.
StoreContextReturned == storePc = {"entity", "marker"}

RECURSIVE MarkerIdLists(_)
MarkerIdLists(n) ==
    IF n = 0 THEN {<<>>}
    ELSE LET shorter == MarkerIdLists(n - 1)
         IN  shorter \cup {Append(l, i) : l \in shorter, i \in MarkerIds}

\* The JSON texts store_async_result writes.
JsonTexts == {json_dumps(v) : v \in PyValues}

\* One step of the generator iter_results(context, batch_size): i_batch takes
\* the next batch of keys, iget_batches reads them with get_multi_async and
\* iter_results yields one pair per key; the generator ends on an empty batch.
IterResultsBatch ==
    /\ iter.pc = "iterating"
    /\ LET keys == next_batch(ctx.task_ids, iter.pos, iter.batch_size)
       IN  iter' = IF keys = <<>>
                   THEN [iter EXCEPT !.pc = "done"]
                   ELSE [iter EXCEPT
                           !.pos = @ + Len(keys),
                           !.yielded = @ \o [i \in 1..Len(keys) |->
                                               <<keys[i], yield_result(markers[keys[i]])>>]]
    /\ UNCHANGED <<datastore, storePc, asyncPc, queue, redelivered, chk,
                   cleanupQueue, ghost, probe, mcall, created, streak, ctx,
                   storeCalls, failures>>

\* A call iter_results(context, batch_size) on any marker store (which no one
\* changes during the iteration), for batch_size >= 1.
InitIter ==
    /\ contextEntity = NoEntity
    /\ completion = Absent
    /\ markers \in {m \in [Asyncs -> {Absent, Bare} \cup JsonTexts] :
                      \A i \in Asyncs \ MarkerIds : m[i] = Absent}
    /\ storePc = {}
    /\ asyncPc = [i \in Asyncs |-> "start"]
    /\ queue = [i \in Asyncs |-> 0]
    /\ redelivered = 0
    /\ chk = [p \in Workers |-> IdleCheck]
    /\ cleanupQueue = <<>>
    /\ handlerCalls = 0
    /\ tcTrue = 0
    /\ tcFalse = 0
    /\ tcNone = 0
    /\ cleanupInserted = 0
    /\ cleanupRan = <<>>
    /\ probe = NoProbe
    /\ mcall = [c \in Callers |-> IdleCall]
    /\ created = [i \in Asyncs |-> Absent]
    /\ streak = NoStreak
    /\ ctx \in [task_ids : MarkerIdLists(MaxContextLen), payload : {"None"}]
    /\ iter \in [pc : {"iterating"}, batch_size : 1..MaxOffset, pos : {0},
                 yielded : {<<>>}]
    /\ storeCalls = 1
    /\ failures = 0

NextIter == IterResultsBatch

SpecIter == InitIter /\ [][NextIter]_vars

\* The pairs iter_results is to yield for the first n task ids of the
\* context: the id, with the decoded result of its marker, or None when the
\* marker is absent or carries no result.
ExpectedResults(n) ==
    [i \in 1..n |->
        <<ctx.task_ids[i],
          IF markers[ctx.task_ids[i]] \in JsonTexts
          THEN json_loads(markers[ctx.task_ids[i]])
          ELSE "None">>]

\* C12: iter_results(context, batch_size) yields, for every batch_size >= 1,
\* one (async_id, result) pair per task id in the order of context.task_ids,
\* the result being the marker's stored result, None for an absent or bare
\* marker; what it has yielded at any moment is the start of that sequence,
\* which does not depend on batch_size.
C12_IterResults ==
    /\ iter.pc = "iterating" => iter.yielded = ExpectedResults(iter.pos)
    /\ iter.pc = "done" => iter.yielded = ExpectedResults(Len(ctx.task_ids))

\* C12 witness: a generator has ended after a last batch shorter than
\* batch_size, having yielded a result, and None for an absent marker, a bare
\* marker and a stored None.
C12_Witness ==
    /\ iter.pc = "done"
    /\ iter.batch_size = 2
    /\ Len(ctx.task_ids) = 3
    /\ \E i, j \in 1..3 :
          /\ iter.yielded[i][2] = "[1]"
          /\ iter.yielded[j][2] = "None"
          /\ markers[ctx.task_ids[j]] = "null"

BatchRead(p, s) == Slice(s, chk[p].index, chk[p].offset)

\* C14: a _check_markers step that reads a batch with an absent marker ends
\* the check task there with False (a step that does not end it has read a
\* batch whose markers are all present), so no later batch is read; the step
\* writes nothing, invokes no handler and schedules no cleanup, the gate is
\* not complete = True, and it is complete = False whenever the
\* CompletionMarker is stored and not yet cleaned up.
C14_ShortCircuit ==
    [][ \A p \in Workers :
          (chk[p].pc = "check_markers" /\ chk'[p] # chk[p]) =>
             /\ UNCHANGED <<datastore, cleanupQueue, ghost>>
             /\ chk'[p].pc # "idle" =>
                   \A i \in Range(BatchRead(p, chk'[p].task_ids)) : markers[i] # Absent
             /\ (chk[p].index > 0
                 /\ \E i \in Range(BatchRead(p, chk[p].task_ids)) : markers[i] = Absent) =>
                   chk'[p] = [IdleCheck EXCEPT !.ret = "False"]
             /\ chk'[p].pc = "idle" =>
                   /\ chk'[p] = [IdleCheck EXCEPT !.ret = "False"]
                   /\ \E i \in Range(chk[p].task_ids) : markers[i] = Absent
                   /\ completion' # "true"
                   /\ ("marker" \in storePc /\ cleanupRan = <<>>) => completion' = "false" ]_vars

\* C14 witness: one check task has returned False, the gate is complete =
\* False with no handler call and no cleanup, and another check task is about
\* to read a second batch whose marker is absent.
C14_Witness ==
    /\ \E p \in Workers : chk[p].pc = "idle" /\ chk[p].ret = "False"
    /\ completion = "false"
    /\ handlerCalls = 0
    /\ cleanupInserted = 0
    /\ \E q \in Workers :
          /\ chk[q].pc = "check_markers"
          /\ chk[q].index > 0
          /\ \E i \in Range(BatchRead(q, chk[q].task_ids)) : markers[i] = Absent

\* C15: a check task that reads a CompletionMarker with complete = True
\* returns at once (None): it goes on to no probe, no
\* _mark_context_complete, no handler and no cleanup scheduling, and the step
\* changes neither the datastore nor the task queues; a check task returns at
\* this step only then.
C15_EarlyReturnWhenComplete ==
    [][ \A p \in Workers :
          (chk[p].pc = "get_marker" /\ chk'[p] # chk[p]) =>
             /\ UNCHANGED <<datastore, queue, cleanupQueue, ghost>>
             /\ completion = "true" => chk'[p] = [IdleCheck EXCEPT !.ret = "None"]
             /\ chk'[p].pc = "idle" => completion = "true" ]_vars

\* C15 witness: a check task of the context (async 0, which has no context,
\* has not started) returned None after the gate was flipped and the handler
\* invoked.
C15_Witness ==
    /\ \E p \in Workers : chk[p].pc = "idle" /\ chk[p].ret = "None"
    /\ asyncPc[0] = "start"
    /\ completion = "true"
    /\ handlerCalls = 1
    /\ tcTrue = 1

\* C16: an invocation of _mark_context_complete that finds the
\* CompletionMarker missing or complete = True returns False and leaves it
\* missing, or as it was; an invocation returns True exactly when it changes
\* complete from False to True, and no invocation writes anything else.
C16_FalseWritesNothing ==
    [][ \A p \in Workers :
          (chk[p].pc = "mark_complete" /\ chk'[p] # chk[p]) =>
             /\ UNCHANGED <<contextEntity, markers>>
             /\ completion \in {Absent, "true"} =>
                   /\ completion' = completion
                   /\ tcTrue' = tcTrue
                   /\ chk'[p] = [IdleCheck EXCEPT !.ret = "True"]
             /\ tcTrue' # tcTrue <=> completion' # completion
             /\ completion' # completion =>
                   /\ completion = "false"
                   /\ completion' = "true"
                   /\ tcTrue' = tcTrue + 1
                   /\ chk'[p].pc = "exec_handler" ]_vars

\* C16 witness: one invocation returned True; one that was passed a marker and
\* one that was passed none returned False; the cleanup has since deleted the
\* CompletionMarker.
C16_Witness ==
    /\ tcTrue = 1
    /\ tcFalse >= 1
    /\ tcNone >= 1
    /\ completion = Absent

\* The scheduling of the cleanup task failed: the handler was invoked, the
\* winning check task is past _insert_post_complete_tasks, and no cleanup task
\* was ever scheduled.
CleanupSchedulingFailed ==
    handlerCalls = 1 /\ cleanupInserted = 0 /\ BeforeCleanupInsert = {}

\* C17: a check task whose scheduling of the cleanup task fails returns True,
\* the step changing nothing else; from then on the gate is complete = True,
\* the handler has been invoked exactly once, and no marker of the context is
\* ever deleted.
C17_SchedulingFailureSwallowed ==
    [][ /\ \A p \in Workers :
             (chk[p].pc = "insert_cleanup" /\ chk'[p] # chk[p]
              /\ cleanupInserted' = cleanupInserted) =>
                /\ chk'[p] = [IdleCheck EXCEPT !.ret = "True"]
                /\ UNCHANGED <<datastore, queue, cleanupQueue, ghost>>
        /\ CleanupSchedulingFailed' =>
             /\ completion' = "true"
             /\ tcTrue' = 1
             /\ contextEntity'.exists
             /\ \A i \in TaskIds : markers'[i] # Absent
             /\ cleanupQueue' = <<>>
             /\ cleanupRan' = <<>> ]_vars

\* C17 witness: the scheduling failed and every async and check task has
\* ended, the winner with True; the markers are still stored.
C17_Witness ==
    /\ CleanupSchedulingFailed
    /\ \A a \in Asyncs : asyncPc[a] = "done" /\ queue[a] = 0
    /\ \A p \in Workers : chk[p].pc = "idle"
    /\ \E p \in Workers : chk[p].ret = "True"
    /\ \A i \in TaskIds : markers[i] = Bare

\* ------------------------------------------- concurrent marker-store calls

\* The callers of the marker store when calls run at the same time.
ConcurrentCallers == 1..NumCallers

\* Callers that make store_async_marker and store_async_result calls at the
\* same time: the get and the put of store_async_marker are two datastore
\* calls, between which the calls of other callers take place.
InitConcurrent ==
    /\ contextEntity = NoEntity
    /\ completion = Absent
    /\ markers = [i \in Asyncs |-> Absent]
    /\ storePc = {}
    /\ asyncPc = [i \in Asyncs |-> "start"]
    /\ queue = [i \in Asyncs |-> 0]
    /\ redelivered = 0
    /\ chk = [p \in Workers |-> IdleCheck]
    /\ cleanupQueue = <<>>
    /\ handlerCalls = 0
    /\ tcTrue = 0
    /\ tcFalse = 0
    /\ tcNone = 0
    /\ cleanupInserted = 0
    /\ cleanupRan = <<>>
    /\ probe = NoProbe
    /\ mcall = [c \in ConcurrentCallers |-> IdleCall]
    /\ created = [i \in Asyncs |-> Absent]
    /\ streak = NoStreak
    /\ ctx = InitialContext
    /\ iter = NoIter
    /\ storeCalls = 1
    /\ failures = 0

NextConcurrent ==
    \/ \E c \in ConcurrentCallers, id \in MarkerIds : MarkRanGet(c, id)
    \/ \E c \in ConcurrentCallers : MarkRanPut(c)
    \/ \E c \in ConcurrentCallers, id \in MarkerIds, v \in PyValues :
          StoreAsyncResult(c, id, v)

SpecConcurrent == InitConcurrent /\ [][NextConcurrent]_vars

\* C18 (as stated): no step replaces a marker that carries a result by a
\* bare marker.
C18_ResultNeverReplacedByBare ==
    [][ \A i \in MarkerIds :
          markers[i] \in JsonTexts => markers'[i] # Bare ]_vars

\* ------------------------------------------- store_context called again

\* The caller calls store_context(context) again for the same context, after
\* the call before it ended (it returned, or put_multi failed after one of
\* its puts): put_multi puts the entity and a new FuriousCompletionMarker
\* once more.
StoreContextRetry ==
    /\ storePc # {}
    /\ storeCalls < MaxStoreCalls
    /\ storeCalls' = storeCalls + 1
    /\ storePc' = {}
    /\ UNCHANGED <<datastore, asyncPc, queue, redelivered, chk, cleanupQueue,
                   ghost, probe, mcall, created, streak, ctx, iter, failures>>

NextRetry ==
    \/ StoreContextRetry
    \/ StoreContextPutEntity
    \/ StoreContextPutMarker
    \/ NextStored

\* The protocol, the context stored first, with a caller that calls
\* store_context again at any later moment.
SpecRetry == InitStored /\ [][NextRetry]_vars

\* C19 (as stated): a CompletionMarker with complete = True stays so or is
\* deleted; it never becomes complete = False.
C19_GateMonotonic ==
    [][ completion = "true" => completion' \in {"true", Absent} ]_vars

\* ------------------------------------------------- check tasks that fail

\* A running check task fails at its current step (an error of a datastore
\* call, of the handler, or the instance going away); the task queue runs the
\* task again from the start.
CheckFails(p) ==
    /\ chk[p].pc # "idle"
    /\ failures < MaxFailures
    /\ failures' = failures + 1
    /\ chk' = Return(p, "Error")
    /\ queue' = [queue EXCEPT ![chk[p].async_id] = @ + 1]
    /\ UNCHANGED <<datastore, storePc, asyncPc, redelivered, cleanupQueue, ghost,
                   probe, mcall, created, streak, ctx, iter, storeCalls>>

NextFail ==
    \/ NextStored
    \/ \E p \in Workers : CheckFails(p)

\* The protocol, the context stored first, with check tasks that may fail at
\* any step and are run again; every async runs to its end and the task queue
\* runs every check task it holds.
SpecFail == InitStored /\ [][NextFail]_vars /\ WF_vars(AsyncStep) /\ WF_vars(CheckStep)

\* Every async has finished and no check task is running or waiting.
TasksEnded ==
    /\ \A a \in Asyncs : asyncPc[a] = "done" /\ queue[a] = 0
    /\ \A p \in Workers : chk[p].pc = "idle"

\* C20 (as stated, on finite runs): when every async has recorded its marker
\* and every check task, re-run after each failure, has ended, the complete
\* handler has been invoked.
C20_HandlerInvokedWhenTasksEnded == TasksEnded => handlerCalls >= 1

====
